---------------------------- MODULE Spec2Model ----------------------------
(***************************************************************************)
(* Model of soluautomaatti.py: the GameBoard class (a toroidal Game of     *)
(* Life board with an initial snapshot and a history of generations).      *)
(*                                                                         *)
(* Arrays are Python objects: the model keeps a heap of array objects and  *)
(* the attributes of the GameBoard hold references (indices into the       *)
(* heap), so that copy.copy, rebinding and writes in place are told apart. *)
(* A grid is a sequence of rows, each a sequence of cells; the code's      *)
(* board[y, x] (0-based) is g[y+1][x+1].                                   *)
(***************************************************************************)
EXTENDS Integers, Sequences, FiniteSets, TLC

VARIABLES
    heap,           \* the array objects: heap[r] is the grid of object r
    board,          \* self.board: a reference
    initial_board,  \* self.initial_board: a reference
    history,        \* self.history: a sequence of references
    phase,          \* "new" before the constructor ran, then "built" or the error raised
    argSize,        \* the size argument the constructor was called with
    argBoard,       \* the board argument: a reference, or NoBoard
    constructed,    \* the grid contents when the constructor returned
    ticks,          \* the number of completed calls of tick()
    spc,            \* shift_positions: position in the function ("idle" outside it)
    sargs,          \* shift_positions: the arguments (x, y) of the running call
    sx,             \* shift_positions: local x
    sy,             \* shift_positions: local y
    call,           \* the last call of a pure method: <<name, x, y>>
    ret,            \* the value that call returned
    mpc,            \* main: position in the function ("idle" outside it)
    n_steps,        \* main: the n_steps argument
    step,           \* main: the loop variable i
    animations,     \* the number of completed calls of animate()
    file,           \* the board file: its text, a sequence of characters
    saved,          \* the grid save_board wrote the file from; <<>> before that
    loaded,         \* what the last read_board gave: [status, grid]
    board2,         \* a second GameBoard on the same heap: its self.board
    initial_board2, \* the second GameBoard's self.initial_board
    history2,       \* the second GameBoard's self.history
    ticks2          \* completed calls of tick() on the second GameBoard

vars == <<heap, board, initial_board, history, phase, argSize, argBoard,
          constructed, ticks, spc, sargs, sx, sy, call, ret,
          mpc, n_steps, step, animations, file, saved, loaded,
          board2, initial_board2, history2, ticks2>>

boardVars == <<heap, board, initial_board, history, phase, argSize, argBoard,
               constructed, ticks>>

shiftVars == <<spc, sargs, sx, sy>>

callVars == <<call, ret>>

mainVars == <<mpc, n_steps, step>>

fileVars == <<file, saved, loaded>>

twoVars == <<board2, initial_board2, history2, ticks2>>

\* What the methods of one GameBoard and its pure calls never touch.
restVars == <<mainVars, animations, fileVars, twoVars>>

(***************************************************************************)
(* Bounds of the model.                                                    *)
(***************************************************************************)
\* The largest number of cells of a constructed grid (so 3x3, 1x9, 2x4, ...).
MaxCells == 9
\* Requested dimensions go down to -MaxNeg.
MaxNeg == 1
\* The largest number of tick() calls on one board.
MaxTicks == 3
\* shift_positions is called with coordinates in -MaxOff .. MaxOff.
MaxOff == 6
\* The largest number of cells of a grid supplied by the caller.
MaxSuppliedCells == 6
\* The largest width and height of a board holding a blinker.
MaxBlinker == 5
\* The largest width and height of a board holding a glider.
MaxGlider == 7
\* The largest number of tick() calls on a board holding a glider.
MaxGliderTicks == 4
\* The largest number of characters of a board file not written by save_board.
MaxTextLen == 4
\* The largest number of tick() calls on each of two boards built from one grid.
MaxTwoTicks == 2
\* The largest n_steps main is called with.
MaxSteps == 2
\* The largest start_delay animate is called with.
MaxDelay == 2
\* The largest number of animate() calls on one board.
MaxAnimations == 1

\* board=None, the default of the constructor's board parameter.
NoBoard == 0

\* size=[50, 50], the default of main's size parameter.
DefaultSize == <<50, 50>>

(***************************************************************************)
(* Arrays.                                                                 *)
(***************************************************************************)
\* np.zeros((rows, cols)) with some cells then set to 1: every 0/1 array of
\* that shape.
Arrays(rows, cols) == [1..rows -> [1..cols -> {0, 1}]]

\* board[y, x]
cell(g, x, y) == g[y + 1][x + 1]

\* copy.copy(array): a new array object with the same contents.
CopyAlias(hp, r) == [heap |-> hp, ref |-> r]

Copy(hp, r) == [heap |-> Append(hp, hp[r]), ref |-> Len(hp) + 1]

\* temp_board[y, x] = v: a write in place into object r.
Store(hp, r, x, y, v) == [hp EXCEPT ![r][y + 1][x + 1] = v]


(***************************************************************************)
(* The pure methods of GameBoard, as functions of the grid g they read     *)
(* (the contents of self.board).                                           *)
(***************************************************************************)
\* get_size(): [len(self.board[0]), len(self.board)].  self.board[0] raises
\* IndexError on an array without rows; the model applies it to arrays with
\* at least one row only.
get_size(g) == <<Len(g[1]), Len(g)>>

\* while(v < 0): v += len
RECURSIVE ShiftUp(_, _)
ShiftUp(v, len) == IF v < 0 THEN ShiftUp(v + len, len) ELSE v

\* while(v >= len): v -= len
RECURSIVE ShiftDown(_, _)
ShiftDown(v, len) == IF v >= len THEN ShiftDown(v - len, len) ELSE v

\* shift_positions(x, y): the four loops one after the other.
shift_positions(g, x, y) ==
    LET x_len == get_size(g)[1]
        y_len == get_size(g)[2]
    IN  <<ShiftDown(ShiftUp(x, x_len), x_len), ShiftDown(ShiftUp(y, y_len), y_len)>>

\* for i in [x-1, x, x+1]: for j in [y-1, y, y+1]: the k-th pair visited.
Moore == <<-1, 0, 1>>

MooreCell(x, y, k) == <<x + Moore[((k - 1) \div 3) + 1], y + Moore[((k - 1) % 3) + 1]>>

\* One pass of the loop body: 1 when the shifted cell is alive.
CountAt(g, i, j) ==
    LET p == shift_positions(g, i, j)
    IN  IF cell(g, p[1], p[2]) = 1 THEN 1 ELSE 0

\* n_neighbors after the first k passes of the loop.
RECURSIVE CountLoop(_, _, _, _)
CountLoop(g, x, y, k) ==
    IF k = 0 THEN 0
    ELSE CountLoop(g, x, y, k - 1)
         + CountAt(g, MooreCell(x, y, k)[1], MooreCell(x, y, k)[2])

get_neighbors_with_centre(g, x, y) == CountLoop(g, x, y, 9)

\* get_neighbors(x, y): the 3x3 block counted, then the cell itself taken off.
get_neighbors(g, x, y) ==
    IF cell(g, x, y) = 1
    THEN CountLoop(g, x, y, 9) - 1
    ELSE CountLoop(g, x, y, 9)

update_cell_survive(g, x, y) ==
    LET n_neighbors == get_neighbors(g, x, y)
    IN  IF cell(g, x, y) = 0
        THEN IF n_neighbors = 3 THEN 1 ELSE cell(g, x, y)
        ELSE IF n_neighbors < 2 \/ n_neighbors >= 3 THEN 0 ELSE cell(g, x, y)

update_cell_birth(g, x, y) ==
    LET n_neighbors == get_neighbors(g, x, y)
    IN  IF cell(g, x, y) = 0
        THEN IF n_neighbors >= 3 THEN 1 ELSE cell(g, x, y)
        ELSE IF n_neighbors < 2 \/ n_neighbors > 3 THEN 0 ELSE cell(g, x, y)

\* update_cell(x, y): the new status of the cell, returned and not stored.
update_cell(g, x, y) ==
    LET n_neighbors == get_neighbors(g, x, y)
    IN  IF cell(g, x, y) = 0
        THEN IF n_neighbors = 3 THEN 1 ELSE cell(g, x, y)
        ELSE IF n_neighbors < 2 \/ n_neighbors > 3 THEN 0 ELSE cell(g, x, y)

(***************************************************************************)
(* The constructor.                                                        *)
(***************************************************************************)
\* The size arguments tried without a board: each dimension from -MaxNeg up,
\* at most MaxCells cells.
SizeArgs ==
    {s \in (-MaxNeg .. MaxCells) \X (-MaxNeg .. MaxCells) :
        s[1] <= 0 \/ s[2] <= 0 \/ s[1] * s[2] <= MaxCells}

\* The boards supplied by a caller: read from a board file, rectangular, of
\* 0 and 1, with at least one row and one column.
SuppliedBoards ==
    UNION {Arrays(s[1], s[2]) :
              s \in {t \in (1 .. MaxSuppliedCells) \X (1 .. MaxSuppliedCells) :
                        t[1] * t[2] <= MaxSuppliedCells}}

\* The size arguments tried with board b: main's default (the call
\* main(100, filename=...)) and the size [columns, rows] of b itself.
SuppliedSizeArgs(b) == {DefaultSize, <<Len(b[1]), Len(b)>>}

\* np.zeros((size[0], size[1])) raises ValueError for a negative dimension.
NegativeDimensions(size) == size[1] < 0 \/ size[2] < 0

\* make_random_board(size): the arrays it can return, one per outcome of the
\* random draws; size[0] is the number of rows and size[1] of columns.
make_random_board(size) == Arrays(size[1], size[2])

\* The attributes after __init__, given the heap and the reference b that
\* self.board was bound to.
init_result(hp, b) ==
    LET c == Copy(hp, b)
    IN  [heap |-> c.heap, board |-> b, initial_board |-> c.ref]

\* GameBoard(size): no board given.  What the constructor does.
GameBoard_random ==
    /\ phase = "new"
    /\ \E size \in SizeArgs :
          /\ argSize' = size
          /\ argBoard' = NoBoard
          /\ IF NegativeDimensions(size)
             THEN /\ phase' = "ValueError"
                  /\ UNCHANGED <<heap, board, initial_board, history, constructed>>
             ELSE \E g \in make_random_board(size) :
                      LET r == init_result(<<g>>, 1)
                      IN  /\ heap' = r.heap
                          /\ board' = r.board
                          /\ initial_board' = r.initial_board
                          /\ history' = <<>>
                          /\ constructed' = g
                          /\ phase' = "built"
    /\ UNCHANGED ticks

\* GameBoard(size) called directly.
RandomInit ==
    /\ GameBoard_random
    /\ UNCHANGED <<shiftVars, callVars, restVars>>

\* GameBoard(size, board): the caller's array is object 1 of the heap.  What
\* the constructor does.
GameBoard_supplied ==
    /\ phase = "new"
    /\ \E b \in SuppliedBoards :
          \E size \in SuppliedSizeArgs(b) :
              LET r == init_result(<<b>>, 1)
              IN  /\ argSize' = size
                  /\ argBoard' = 1
                  /\ heap' = r.heap
                  /\ board' = r.board
                  /\ initial_board' = r.initial_board
                  /\ history' = <<>>
                  /\ constructed' = b
                  /\ phase' = "built"
    /\ UNCHANGED ticks

\* GameBoard(size, board) called directly.
SuppliedInit ==
    /\ GameBoard_supplied
    /\ UNCHANGED <<shiftVars, callVars, restVars>>

\* get_initial_board()
get_initial_board == heap[initial_board]

\* get_board()
get_board == heap[board]

\* get_animation()
get_animation == [i \in 1..Len(history) |-> heap[history[i]]]

(***************************************************************************)
(* tick().                                                                 *)
(***************************************************************************)
\* The k-th cell visited by "for y in range(len(board)): for x in
\* range(len(board[0]))", k from 0.
LoopX(g, k) == k % Len(g[1])

LoopY(g, k) == k \div Len(g[1])

NCells(g) == IF Len(g) = 0 THEN 0 ELSE Len(g) * Len(g[1])

\* The same loop reading the cells from temp_board, the array being written.
RECURSIVE tick_loop_inplace(_, _, _, _)
tick_loop_inplace(hp, b, t, k) ==
    IF k >= NCells(hp[b]) THEN hp
    ELSE tick_loop_inplace(
             Store(hp, t, LoopX(hp[b], k), LoopY(hp[b], k),
                   update_cell(hp[t], LoopX(hp[b], k), LoopY(hp[b], k))),
             b, t, k + 1)

\* The loop of tick() from its k-th cell on: temp_board (object t) is
\* written in place, update_cell reads self.board (object b).
RECURSIVE tick_loop(_, _, _, _)
tick_loop(hp, b, t, k) ==
    IF k >= NCells(hp[b]) THEN hp
    ELSE tick_loop(
             Store(hp, t, LoopX(hp[b], k), LoopY(hp[b], k),
                   update_cell(hp[b], LoopX(hp[b], k), LoopY(hp[b], k))),
             b, t, k + 1)

\* tick() computing the new board with x and y exchanged.
tick_result_transposed(hp, b) ==
    LET snap == Copy(hp, b)
        tmp  == Copy(snap.heap, b)
    IN  [heap     |-> [tick_loop(tmp.heap, b, tmp.ref, 0) EXCEPT
                          ![tmp.ref] =
                              IF Len(@) = 0 THEN @
                              ELSE [c \in 1 .. Len(@[1]) |->
                                       [r \in 1 .. Len(@) |-> @[r][c]]]],
         appended |-> snap.ref,
         board    |-> tmp.ref]

\* tick() with the snapshot for the history taken after the update.
tick_result_late(hp, b) ==
    LET tmp  == Copy(hp, b)
        done == tick_loop(tmp.heap, b, tmp.ref, 0)
        snap == Copy(done, tmp.ref)
    IN  [heap |-> snap.heap, appended |-> snap.ref, board |-> tmp.ref]

\* tick(): the heap after the call, the reference appended to self.history
\* and the reference self.board is bound to.
tick_result(hp, b) ==
    LET snap == Copy(hp, b)
        tmp  == Copy(snap.heap, b)
    IN  [heap     |-> tick_loop(tmp.heap, b, tmp.ref, 0),
         appended |-> snap.ref,
         board    |-> tmp.ref]

\* One call of tick(): what it does to the GameBoard.
tick_step ==
    /\ phase = "built"
    /\ \E r \in {tick_result(heap, board)} :
           /\ heap' = r.heap
           /\ history' = Append(history, r.appended)
           /\ board' = r.board
    /\ ticks' = ticks + 1
    /\ UNCHANGED <<initial_board, phase, argSize, argBoard, constructed>>

\* tick() called by a caller that stops after MaxTicks calls.
tick ==
    /\ ticks < MaxTicks
    /\ tick_step
    /\ UNCHANGED <<shiftVars, callVars, restVars>>

(***************************************************************************)
(* Calls of the pure methods on a cell of the board, as tick() makes them. *)
(***************************************************************************)
\* The cells of g: 0 <= x < len(g[0]), 0 <= y < len(g).
Cells(g) == {c \in (0 .. MaxCells) \X (0 .. MaxCells) : c[2] < Len(g) /\ c[1] < Len(g[c[2] + 1])}

\* n_neighbors = self.get_neighbors(x, y)
call_get_neighbors ==
    /\ phase = "built"
    /\ call[1] = "none"
    /\ \E c \in Cells(get_board) :
          /\ call' = <<"get_neighbors", c[1], c[2]>>
          /\ ret' = get_neighbors(get_board, c[1], c[2])
    /\ UNCHANGED <<boardVars, shiftVars, restVars>>

\* temp_board[y, x] = self.update_cell(x, y), the value before it is stored
call_update_cell ==
    /\ phase = "built"
    /\ call[1] = "none"
    /\ \E c \in Cells(get_board) :
          /\ call' = <<"update_cell", c[1], c[2]>>
          /\ ret' = update_cell(get_board, c[1], c[2])
    /\ UNCHANGED <<boardVars, shiftVars, restVars>>

\* The caller has used the value; the program is sequential, so the next call
\* starts after that.
call_done ==
    /\ call[1] # "none"
    /\ call' = <<"none", 0, 0>>
    /\ ret' = 0
    /\ UNCHANGED <<boardVars, shiftVars, restVars>>

(***************************************************************************)
(* Board files: save_board and read_board.  A text is a sequence of        *)
(* characters.                                                             *)
(***************************************************************************)
DigitChars == <<"0", "1", "2", "3", "4", "5", "6", "7", "8", "9">>

\* What str.split() splits at.
Whitespace == {" ", "\n"}

\* str(int(v)): the decimal digits, with a minus sign for a negative v.
RECURSIVE IntStr(_)
IntStr(v) ==
    IF v < 0 THEN <<"-">> \o IntStr(-v)
    ELSE IF v < 10 THEN <<DigitChars[v + 1]>>
    ELSE IntStr(v \div 10) \o <<DigitChars[(v % 10) + 1]>>

\* The inner loop of save_board without the " " after each cell.
RECURSIVE RowTextNoSpace(_, _, _)
RowTextNoSpace(g, y, x) ==
    IF x >= Len(g[1]) THEN <<>>
    ELSE IntStr(cell(g, x, y)) \o RowTextNoSpace(g, y, x + 1)

\* The inner loop of save_board from column x on: each cell of row y and a
\* space after it.
RECURSIVE RowText(_, _, _)
RowText(g, y, x) ==
    IF x >= Len(g[1]) THEN <<>>
    ELSE IntStr(cell(g, x, y)) \o <<" ">> \o RowText(g, y, x + 1)

\* The outer loop of save_board from row y on: each row and a newline.
RECURSIVE BoardText(_, _)
BoardText(g, y) ==
    IF y >= Len(g) THEN <<>>
    ELSE RowText(g, y, 0) \o <<"\n">> \o BoardText(g, y + 1)

\* save_board(board, filename): the text written to the file.
save_board_text(g) == BoardText(g, 0)

\* file.readlines() from character k on, cur being the line read so far: the
\* lines, each with its newline, the last one without when the text does not
\* end with one.
RECURSIVE readlines(_, _, _)
readlines(text, k, cur) ==
    IF k > Len(text) THEN (IF cur = <<>> THEN <<>> ELSE <<cur>>)
    ELSE IF text[k] = "\n"
         THEN <<Append(cur, text[k])>> \o readlines(text, k + 1, <<>>)
         ELSE readlines(text, k + 1, Append(cur, text[k]))

\* line.split() from character k on, cur being the token read so far: the
\* maximal runs of characters that are not whitespace.
RECURSIVE split(_, _, _)
split(line, k, cur) ==
    IF k > Len(line) THEN (IF cur = <<>> THEN <<>> ELSE <<cur>>)
    ELSE IF line[k] \in Whitespace
         THEN (IF cur = <<>> THEN <<>> ELSE <<cur>>) \o split(line, k + 1, <<>>)
         ELSE split(line, k + 1, Append(cur, line[k]))

\* The digits of a token after its sign, if it has one.
Unsigned(tok) == IF tok[1] \in {"-", "+"} THEN Tail(tok) ELSE tok

\* int(tok) does not raise ValueError: an optional sign and at least one
\* digit.
IsInt(tok) ==
    /\ Len(Unsigned(tok)) >= 1
    /\ \A i \in 1 .. Len(Unsigned(tok)) :
          \E d \in 1 .. 10 : DigitChars[d] = Unsigned(tok)[i]

\* The value of the first n digits of ds.
RECURSIVE DigitsVal(_, _)
DigitsVal(ds, n) ==
    IF n = 0 THEN 0
    ELSE 10 * DigitsVal(ds, n - 1)
         + (CHOOSE d \in 0 .. 9 : DigitChars[d + 1] = ds[n])

\* int(tok)
IntVal(tok) ==
    IF tok[1] = "-"
    THEN 0 - DigitsVal(Unsigned(tok), Len(Unsigned(tok)))
    ELSE DigitsVal(Unsigned(tok), Len(Unsigned(tok)))

\* The tokens of each line of the text.
TokenRows(text) ==
    LET lines == readlines(text, 1, <<>>)
    IN  [i \in 1 .. Len(lines) |-> split(lines[i], 1, <<>>)]

\* read_board(filename) on a file with that text: the outcomes it can have.
\* int() raises ValueError on a token that is no integer.  np.array of rows
\* of differing lengths raises ValueError or gives an array of row objects,
\* depending on the numpy installed.
read_board(text) ==
    LET rows == TokenRows(text)
    IN  IF \E i \in 1 .. Len(rows) : \E j \in 1 .. Len(rows[i]) : ~IsInt(rows[i][j])
        THEN {[status |-> "ValueError", grid |-> <<>>]}
        ELSE LET b == [i \in 1 .. Len(rows) |->
                          [j \in 1 .. Len(rows[i]) |-> IntVal(rows[i][j])]]
             IN  IF \A i \in 1 .. Len(b) : Len(b[i]) = Len(b[1])
                 THEN {[status |-> "ok", grid |-> b]}
                 ELSE {[status |-> "ValueError", grid |-> <<>>],
                       [status |-> "ragged", grid |-> b]}

\* save_board(board, filename) with one of the boards a caller holds, by a
\* caller that saves before it reads the file back.
call_save_board ==
    /\ loaded.status = "none"
    /\ \E g \in SuppliedBoards :
          /\ file' = save_board_text(g)
          /\ saved' = g
    /\ UNCHANGED loaded
    /\ UNCHANGED <<boardVars, shiftVars, callVars, mainVars, animations, twoVars>>

\* board = read_board(filename)
call_read_board ==
    /\ \E r \in read_board(file) : loaded' = r
    /\ UNCHANGED <<file, saved>>
    /\ UNCHANGED <<boardVars, shiftVars, callVars, mainVars, animations, twoVars>>

(***************************************************************************)
(* animate(start_delay).  The start_delay argument is <<>> for None and    *)
(* <<d>> for the integer d.  Drawing, saving the .gif and showing it read  *)
(* self.history and change nothing.                                        *)
(***************************************************************************)
StartDelays == {<<>>} \cup {<<d>> : d \in 0 .. MaxDelay}

\* for _ in range(d): self.history = [self.history[0]] + self.history
RECURSIVE delayed(_, _)
delayed(hist, d) ==
    IF d <= 0 THEN hist ELSE delayed(<<hist[1]>> \o hist, d - 1)

\* self.history[0] raises IndexError: a delay of at least 1 and no history.
animate_raises(hist, sd) == sd # <<>> /\ sd[1] >= 1 /\ hist = <<>>

\* self.history after animate(start_delay) returned.
animate_history(hist, sd) == IF sd = <<>> THEN hist ELSE delayed(hist, sd[1])

\* animate(start_delay) called on the GameBoard.
call_animate ==
    /\ phase = "built"
    /\ animations < MaxAnimations
    /\ \E sd \in StartDelays :
          IF animate_raises(history, sd)
          THEN /\ call' = <<"animate: IndexError", 0, 0>>
               /\ UNCHANGED <<history, animations>>
          ELSE /\ history' = animate_history(history, sd)
               /\ animations' = animations + 1
               /\ UNCHANGED call
    /\ UNCHANGED <<heap, board, initial_board, phase, argSize, argBoard,
                   constructed, ticks>>
    /\ UNCHANGED <<shiftVars, ret, mainVars, fileVars, twoVars>>

(***************************************************************************)
(* main(n_steps, size, filename, animate, start_delay), step by step.      *)
(***************************************************************************)
\* print_progress(step, total): step / total raises ZeroDivisionError when
\* total is 0; otherwise a line is printed and nothing else happens.
print_progress(st, total) == IF total = 0 THEN "ZeroDivisionError" ELSE "printed"

\* main is called with some n_steps >= 0.
main_call ==
    /\ mpc = "idle"
    /\ phase = "new"
    /\ \E n \in 0 .. MaxSteps : n_steps' = n
    /\ mpc' = "construct"
    /\ UNCHANGED step
    /\ UNCHANGED <<boardVars, shiftVars, callVars, animations, fileVars, twoVars>>

\* gameBoard = GameBoard(size, board) with the board read from the file, or
\* GameBoard(size); an error of the constructor ends main.
main_construct ==
    /\ mpc = "construct"
    /\ \/ GameBoard_supplied
       \/ GameBoard_random
    /\ mpc' = IF phase' = "built" THEN "loop" ELSE phase'
    /\ UNCHANGED <<n_steps, step>>
    /\ UNCHANGED <<shiftVars, callVars, animations, fileVars, twoVars>>

\* One pass of "for i in range(n_steps+1)": tick() and print_progress.
main_tick ==
    /\ mpc = "loop"
    /\ step < n_steps + 1
    /\ tick_step
    /\ mpc' = IF print_progress(step, n_steps + 1) = "printed"
              THEN "loop"
              ELSE print_progress(step, n_steps + 1)
    /\ step' = step + 1
    /\ UNCHANGED n_steps
    /\ UNCHANGED <<shiftVars, callVars, animations, fileVars, twoVars>>

\* The loop is over: print_progress(n_steps, n_steps).
main_progress ==
    /\ mpc = "loop"
    /\ step >= n_steps + 1
    /\ mpc' = IF print_progress(n_steps, n_steps) = "printed"
              THEN "save"
              ELSE print_progress(n_steps, n_steps)
    /\ UNCHANGED <<n_steps, step>>
    /\ UNCHANGED <<boardVars, shiftVars, callVars, animations, fileVars, twoVars>>

\* initial_board = gameBoard.get_initial_board(); save_board(initial_board, ...)
main_save ==
    /\ mpc = "save"
    /\ file' = save_board_text(get_initial_board)
    /\ saved' = get_initial_board
    /\ mpc' = "animate"
    /\ UNCHANGED <<n_steps, step, loaded>>
    /\ UNCHANGED <<boardVars, shiftVars, callVars, animations, twoVars>>

\* if(animate): gameBoard.animate(start_delay=start_delay); return.  The loop
\* has run at least once, so self.history[0] exists.
main_animate ==
    /\ mpc = "animate"
    /\ \E flag \in BOOLEAN, sd \in StartDelays :
          IF flag
          THEN /\ history' = animate_history(history, sd)
               /\ animations' = animations + 1
          ELSE UNCHANGED <<history, animations>>
    /\ mpc' = "done"
    /\ UNCHANGED <<n_steps, step>>
    /\ UNCHANGED <<heap, board, initial_board, phase, argSize, argBoard,
                   constructed, ticks>>
    /\ UNCHANGED <<shiftVars, callVars, fileVars, twoVars>>

(***************************************************************************)
(* shift_positions(x, y) step by step: one action per test of a loop       *)
(* condition, with the iteration it allows.                                *)
(***************************************************************************)
ShiftCall ==
    /\ phase = "built"
    /\ spc \in {"idle", "ret"}
    /\ \E x \in -MaxOff .. MaxOff, y \in -MaxOff .. MaxOff :
          /\ sargs' = <<x, y>>
          /\ sx' = x
          /\ sy' = y
    /\ spc' = "x_neg"
    /\ UNCHANGED <<boardVars, callVars, restVars>>

ShiftXNeg ==
    /\ spc = "x_neg"
    /\ IF sx < 0
       THEN sx' = sx + get_size(get_board)[1] /\ spc' = spc
       ELSE sx' = sx /\ spc' = "x_big"
    /\ UNCHANGED <<sargs, sy>>
    /\ UNCHANGED <<boardVars, callVars, restVars>>

ShiftXBigOffByOne ==
    /\ spc = "x_big"
    /\ IF sx > get_size(get_board)[1]
       THEN sx' = sx - get_size(get_board)[1] /\ spc' = spc
       ELSE sx' = sx /\ spc' = "y_neg"
    /\ UNCHANGED <<sargs, sy>>
    /\ UNCHANGED <<boardVars, callVars, restVars>>

ShiftXBig ==
    /\ spc = "x_big"
    /\ IF sx >= get_size(get_board)[1]
       THEN sx' = sx - get_size(get_board)[1] /\ spc' = spc
       ELSE sx' = sx /\ spc' = "y_neg"
    /\ UNCHANGED <<sargs, sy>>
    /\ UNCHANGED <<boardVars, callVars, restVars>>

ShiftYNeg ==
    /\ spc = "y_neg"
    /\ IF sy < 0
       THEN sy' = sy + get_size(get_board)[2] /\ spc' = spc
       ELSE sy' = sy /\ spc' = "y_big"
    /\ UNCHANGED <<sargs, sx>>
    /\ UNCHANGED <<boardVars, callVars, restVars>>

\* The last loop; leaving it is the return of (x, y).
ShiftYBig ==
    /\ spc = "y_big"
    /\ IF sy >= get_size(get_board)[2]
       THEN sy' = sy - get_size(get_board)[2] /\ spc' = spc
       ELSE sy' = sy /\ spc' = "ret"
    /\ UNCHANGED <<sargs, sx>>
    /\ UNCHANGED <<boardVars, callVars, restVars>>

ShiftStep == ShiftXNeg \/ ShiftXBig \/ ShiftYNeg \/ ShiftYBig

(***************************************************************************)
(* Specifications.                                                         *)
(***************************************************************************)
\* main is not running, animate was not called, there is no board file and
\* no second GameBoard.
RestIdle ==
    /\ mpc = "idle"
    /\ n_steps = 0
    /\ step = 0
    /\ animations = 0
    /\ file = <<>>
    /\ saved = <<>>
    /\ loaded = [status |-> "none", grid |-> <<>>]
    /\ board2 = NoBoard
    /\ initial_board2 = NoBoard
    /\ history2 = <<>>
    /\ ticks2 = 0

Init ==
    /\ heap = <<>>
    /\ board = NoBoard
    /\ initial_board = NoBoard
    /\ history = <<>>
    /\ phase = "new"
    /\ argSize = <<0, 0>>
    /\ argBoard = NoBoard
    /\ constructed = <<>>
    /\ ticks = 0
    /\ spc = "idle"
    /\ sargs = <<0, 0>>
    /\ sx = 0
    /\ sy = 0
    /\ call = <<"none", 0, 0>>
    /\ ret = 0
    /\ RestIdle

Next == RandomInit \/ SuppliedInit \/ tick

\* A board is constructed and ticked.
Spec == Init /\ [][Next]_vars

\* The boards shift_positions is run on: one per shape with at least one row
\* and one column (the function reads get_size() only), all cells dead.
InitShift ==
    /\ \E size \in {t \in SizeArgs : t[1] > 0 /\ t[2] > 0} :
          LET g == [r \in 1..size[1] |-> [c \in 1..size[2] |-> 0]]
              i == init_result(<<g>>, 1)
          IN  /\ heap = i.heap
              /\ board = i.board
              /\ initial_board = i.initial_board
              /\ argSize = size
              /\ constructed = g
    /\ history = <<>>
    /\ phase = "built"
    /\ argBoard = NoBoard
    /\ ticks = 0
    /\ spc = "idle"
    /\ sargs = <<0, 0>>
    /\ sx = 0
    /\ sy = 0
    /\ call = <<"none", 0, 0>>
    /\ ret = 0
    /\ RestIdle

\* The boards the pure methods are called on: every 0/1 board the constructor
\* can make with at least one row and one column.
InitCells ==
    /\ \E size \in {t \in SizeArgs : t[1] > 0 /\ t[2] > 0} :
          \E g \in make_random_board(size) :
              LET i == init_result(<<g>>, 1)
              IN  /\ heap = i.heap
                  /\ board = i.board
                  /\ initial_board = i.initial_board
                  /\ argSize = size
                  /\ constructed = g
    /\ history = <<>>
    /\ phase = "built"
    /\ argBoard = NoBoard
    /\ ticks = 0
    /\ spc = "idle"
    /\ sargs = <<0, 0>>
    /\ sx = 0
    /\ sy = 0
    /\ call = <<"none", 0, 0>>
    /\ ret = 0
    /\ RestIdle

NextCells == call_get_neighbors \/ call_update_cell \/ call_done

\* get_neighbors and update_cell are called on the cells of a constructed
\* board.
SpecCells == InitCells /\ [][NextCells]_vars

NextShift == ShiftCall \/ ShiftXNeg \/ ShiftXBig \/ ShiftYNeg \/ ShiftYBig

\* shift_positions is called again and again on a constructed board; a call
\* that has started keeps running (the program is sequential).
SpecShift == InitShift /\ [][NextShift]_vars /\ WF_vars(ShiftStep)

\* The attributes of one GameBoard made by GameBoard(size, g), nothing else
\* having run.
BuiltFrom(g, size) ==
    /\ \E i \in {init_result(<<g>>, 1)} :
          /\ heap = i.heap
          /\ board = i.board
          /\ initial_board = i.initial_board
    /\ argSize = size
    /\ argBoard = 1
    /\ constructed = g
    /\ history = <<>>
    /\ phase = "built"
    /\ ticks = 0
    /\ spc = "idle"
    /\ sargs = <<0, 0>>
    /\ sx = 0
    /\ sy = 0
    /\ call = <<"none", 0, 0>>
    /\ ret = 0

\* A board of h rows and w columns, all dead but the three cells of row y
\* around column x (a horizontal blinker), columns wrapping.
BlinkerRow(w, h, x, y) ==
    [r \in 1 .. h |->
        [c \in 1 .. w |->
            IF r - 1 = y /\ c - 1 \in {(x - 1) % w, x, (x + 1) % w} THEN 1 ELSE 0]]

\* A board loaded with a horizontal blinker, of every size from 3x3 up and at
\* every place.
InitBlinker ==
    /\ \E w \in 3 .. MaxBlinker, h \in 3 .. MaxBlinker :
          \E x \in 0 .. w - 1, y \in 0 .. h - 1 :
              BuiltFrom(BlinkerRow(w, h, x, y), <<w, h>>)
    /\ RestIdle

\* The blinker board is ticked.
SpecBlinker == InitBlinker /\ [][tick]_vars

\* The cells of the standard glider, as (x, y) from its top left corner:
\*     . 1 .
\*     . . 1
\*     1 1 1
GliderCells == {<<1, 0>>, <<2, 1>>, <<0, 2>>, <<1, 2>>, <<2, 2>>}

\* A board of h rows and w columns, all dead but a glider whose top left
\* corner is at (ox, oy), columns and rows wrapping.
Glider(w, h, ox, oy) ==
    [r \in 1 .. h |->
        [c \in 1 .. w |->
            IF \E g \in GliderCells :
                   /\ c - 1 = (ox + g[1]) % w
                   /\ r - 1 = (oy + g[2]) % h
            THEN 1 ELSE 0]]

\* A board loaded with one glider, of every size from 6x6 up and at every
\* place.
InitGlider ==
    /\ \E w \in 6 .. MaxGlider, h \in 6 .. MaxGlider :
          \E ox \in 0 .. w - 1, oy \in 0 .. h - 1 :
              BuiltFrom(Glider(w, h, ox, oy), <<w, h>>)
    /\ RestIdle

\* tick() called by a caller that stops after MaxGliderTicks calls.
tick_glider ==
    /\ ticks < MaxGliderTicks
    /\ tick_step
    /\ UNCHANGED <<shiftVars, callVars, restVars>>

\* The glider board is ticked.
SpecGlider == InitGlider /\ [][tick_glider]_vars

NextMain ==
    \/ main_call
    \/ main_construct
    \/ main_tick
    \/ main_progress
    \/ main_save
    \/ main_animate

\* One run of main.
SpecMain == Init /\ [][NextMain]_vars

\* A board loaded from a file, not ticked yet.
InitAnimate ==
    /\ \E b \in SuppliedBoards : BuiltFrom(b, <<Len(b[1]), Len(b)>>)
    /\ RestIdle

NextAnimate == tick \/ call_animate

\* The board is ticked and animated, in any order.
SpecAnimate == InitAnimate /\ [][NextAnimate]_vars

\* b = np.array(...); A = GameBoard(size, b); B = GameBoard(size, b): both
\* boards hold the caller's array and each has its own copy as initial_board.
InitTwo ==
    /\ \E g \in SuppliedBoards :
          \E a \in {init_result(<<g>>, 1)} :
             \E b \in {init_result(a.heap, 1)} :
                /\ heap = b.heap
                /\ board = a.board
                /\ initial_board = a.initial_board
                /\ board2 = b.board
                /\ initial_board2 = b.initial_board
                /\ constructed = g
                /\ argSize = <<Len(g[1]), Len(g)>>
    /\ argBoard = 1
    /\ history = <<>>
    /\ history2 = <<>>
    /\ phase = "built"
    /\ ticks = 0
    /\ ticks2 = 0
    /\ spc = "idle"
    /\ sargs = <<0, 0>>
    /\ sx = 0
    /\ sy = 0
    /\ call = <<"none", 0, 0>>
    /\ ret = 0
    /\ mpc = "idle"
    /\ n_steps = 0
    /\ step = 0
    /\ animations = 0
    /\ file = <<>>
    /\ saved = <<>>
    /\ loaded = [status |-> "none", grid |-> <<>>]

\* A.tick()
tick_first ==
    /\ ticks < MaxTwoTicks
    /\ tick_step
    /\ UNCHANGED <<shiftVars, callVars, restVars>>

\* B.tick()
tick_second ==
    /\ ticks2 < MaxTwoTicks
    /\ \E r \in {tick_result(heap, board2)} :
          /\ heap' = r.heap
          /\ history2' = Append(history2, r.appended)
          /\ board2' = r.board
    /\ ticks2' = ticks2 + 1
    /\ UNCHANGED initial_board2
    /\ UNCHANGED <<board, initial_board, history, phase, argSize, argBoard,
                   constructed, ticks>>
    /\ UNCHANGED <<shiftVars, callVars, mainVars, animations, fileVars>>

NextTwo == tick_first \/ tick_second

\* Two boards built from one array, ticked in any order.
SpecTwo == InitTwo /\ [][NextTwo]_vars

\* No GameBoard has been constructed; the state of everything but the file.
NoGameBoard ==
    /\ heap = <<>>
    /\ board = NoBoard
    /\ initial_board = NoBoard
    /\ history = <<>>
    /\ phase = "new"
    /\ argSize = <<0, 0>>
    /\ argBoard = NoBoard
    /\ constructed = <<>>
    /\ ticks = 0
    /\ spc = "idle"
    /\ sargs = <<0, 0>>
    /\ sx = 0
    /\ sy = 0
    /\ call = <<"none", 0, 0>>
    /\ ret = 0
    /\ mpc = "idle"
    /\ n_steps = 0
    /\ step = 0
    /\ animations = 0
    /\ board2 = NoBoard
    /\ initial_board2 = NoBoard
    /\ history2 = <<>>
    /\ ticks2 = 0

\* The characters of the board files tried.
FileChars == {"0", "1", "2", "-", "x", " ", "\n"}

\* A board file with any text of at most MaxTextLen characters, not read yet.
InitRead ==
    /\ NoGameBoard
    /\ file \in UNION {[1 .. n -> FileChars] : n \in 0 .. MaxTextLen}
    /\ saved = <<>>
    /\ loaded = [status |-> "none", grid |-> <<>>]

\* read_board is called on the file.
SpecRead == InitRead /\ [][call_read_board]_vars

\* An empty board file.
InitFile ==
    /\ NoGameBoard
    /\ file = <<>>
    /\ saved = <<>>
    /\ loaded = [status |-> "none", grid |-> <<>>]

NextFile == call_save_board \/ call_read_board

\* Boards are saved to the file, then the file is read back.
SpecFile == InitFile /\ [][NextFile]_vars

(***************************************************************************)
(* Reference definitions the properties are stated with.                   *)
(***************************************************************************)
\* A board of h rows and w columns, all dead but the three cells of column x
\* around row y, rows wrapping.
VerticalLine(w, h, x, y) ==
    [r \in 1 .. h |->
        [c \in 1 .. w |->
            IF c - 1 = x /\ r - 1 \in {(y - 1) % h, y, (y + 1) % h} THEN 1 ELSE 0]]

\* A board of h rows and w columns with every cell alive.
AllAlive(w, h) == [r \in 1 .. h |-> [c \in 1 .. w |-> 1]]

\* The 8 offsets of the Moore neighbourhood.
Deltas == {d \in {-1, 0, 1} \X {-1, 0, 1} : d # <<0, 0>>}

\* g tiled 3x3: nine copies of g placed side by side.
Tile3(g) ==
    [r \in 1 .. 3 * Len(g) |->
        [c \in 1 .. 3 * Len(g[1]) |->
            g[((r - 1) % Len(g)) + 1][((c - 1) % Len(g[1])) + 1]]]

\* The alive cells among the 8 real neighbours of cell (x, y) of the centre
\* copy of the tiling T, whose tiles have w columns and h rows.
TiledCount(T, w, h, x, y) ==
    Cardinality({d \in Deltas : T[h + y + d[2] + 1][w + x + d[1] + 1] = 1})

\* B3/S23 on a cell state and a neighbour count.
B3S23(state, n) ==
    IF (state = 1 /\ n \in {2, 3}) \/ (state = 0 /\ n = 3) THEN 1 ELSE 0

\* The number of alive cells among the 8 neighbours on the torus.
TorusCount(g, x, y) ==
    Cardinality({d \in Deltas :
        g[((y + d[2]) % Len(g)) + 1][((x + d[1]) % Len(g[1])) + 1] = 1})

\* The one-generation successor of grid g on the torus.
LifeNext(g) ==
    [r \in 1 .. Len(g) |->
        [c \in 1 .. Len(g[r]) |-> B3S23(g[r][c], TorusCount(g, c - 1, r - 1))]]

\* The n-th generation after g.
RECURSIVE Generation(_, _)
Generation(g, n) == IF n = 0 THEN g ELSE LifeNext(Generation(g, n - 1))

\* The grids a history refers to.
Snapshots(hist) == [i \in 1 .. Len(hist) |-> heap[hist[i]]]

\* What one pass over g gives when each cell is read from the array being
\* written (cells already updated in the same pass are seen).
SequentialNext(g) == tick_loop_inplace(<<g>>, 1, 1, 0)[1]

\* A returned call of shift_positions gave the non-negative remainders of
\* its arguments, inside the grid.
ShiftResult ==
    spc = "ret" =>
        /\ sx = sargs[1] % get_size(get_board)[1]
        /\ sy = sargs[2] % get_size(get_board)[2]
        /\ 0 <= sx /\ sx < get_size(get_board)[1]
        /\ 0 <= sy /\ sy < get_size(get_board)[2]

\* Each entry of history is followed by its successor, and the live grid is
\* the successor of the last entry.
HistoryChain ==
    phase = "built" =>
        /\ \A i \in 1 .. Len(history) - 1 :
              get_animation[i + 1] = LifeNext(get_animation[i])
        /\ Len(history) >= 1 => get_board = LifeNext(get_animation[Len(history)])

(***************************************************************************)
(* C1. One tick() replaces the live grid by the grid whose every cell is   *)
(* update_cell of that cell on the grid as it was before the tick: no new  *)
(* value depends on a value written during the same tick.                  *)
(***************************************************************************)
TickReadsSnapshot ==
    [][ticks' = ticks + 1 =>
          /\ Len(heap'[board']) = Len(heap[board])
          /\ \A y \in 1 .. Len(heap[board]) :
                /\ Len(heap'[board'][y]) = Len(heap[board][y])
                /\ \A x \in 1 .. Len(heap[board][y]) :
                      heap'[board'][y][x] = update_cell(heap[board], x - 1, y - 1)]_vars

\* A tick has run on a grid where updating the cells one after the other in
\* place would have given another result.
TickReadsSnapshotWitness ==
    /\ ticks >= 1
    /\ get_board # SequentialNext(heap[history[Len(history)]])

(***************************************************************************)
(* C2. update_cell(x, y) is B3/S23: an alive cell yields alive iff its     *)
(* neighbour count is 2 or 3, a dead cell yields alive iff its count is 3, *)
(* and every other case yields dead; the count is one of 0..8.             *)
(***************************************************************************)
UpdateCellIsB3S23 ==
    call[1] = "update_cell" =>
        LET state == cell(get_board, call[2], call[3])
            n     == get_neighbors(get_board, call[2], call[3])
        IN  /\ n \in 0 .. 8
            /\ ret \in {0, 1}
            /\ (ret = 1) <=> ((state = 1 /\ n \in {2, 3}) \/ (state = 0 /\ n = 3))

\* update_cell has returned dead for an alive cell with exactly 4 neighbours.
UpdateCellIsB3S23Witness ==
    /\ call[1] = "update_cell"
    /\ cell(get_board, call[2], call[3]) = 1
    /\ get_neighbors(get_board, call[2], call[3]) = 4
    /\ ret = 0

(***************************************************************************)
(* C3. get_neighbors(x, y) is the number of alive cells among the 8 real   *)
(* neighbours of the cell in the centre copy of the grid tiled 3x3, the    *)
(* cell itself not counted, for every cell of every board with at least    *)
(* one row and one column (widths and heights of 1 and 2 included).        *)
(***************************************************************************)
NeighborsMatchTiling ==
    call[1] = "get_neighbors" =>
        ret = TiledCount(Tile3(get_board), Len(get_board[1]), Len(get_board),
                         call[2], call[3])

\* get_neighbors has returned a positive count for an alive corner cell of a
\* board one column wide: the cell is counted only through its wrapped images.
NeighborsMatchTilingWitness ==
    /\ call = <<"get_neighbors", 0, 0>>
    /\ Len(get_board[1]) = 1
    /\ cell(get_board, 0, 0) = 1
    /\ ret > 0

(***************************************************************************)
(* C4. On a board of width w > 0 and height h > 0, shift_positions(x, y)   *)
(* terminates for every x and y, however far outside the grid, returns     *)
(* (x mod w, y mod h) with the non-negative modulo, and changes no board   *)
(* state.                                                                  *)
(***************************************************************************)
ShiftPositionsIsModulo ==
    /\ []ShiftResult
    /\ (spc = "x_neg") ~> (spc = "ret")
    /\ [][UNCHANGED boardVars]_vars

\* shift_positions has returned for an x more than two widths below the grid
\* and a y more than two heights above it.
ShiftPositionsIsModuloWitness ==
    /\ spc = "ret"
    /\ sargs[1] < -2 * get_size(get_board)[1]
    /\ sargs[2] > 3 * get_size(get_board)[2]

(***************************************************************************)
(* C5. After k calls of tick() on a freshly constructed board, history has *)
(* length exactly k, and for k >= 1 its first entry equals the grid as it  *)
(* was at construction.                                                    *)
(***************************************************************************)
HistoryLength ==
    phase = "built" =>
        /\ Len(history) = ticks
        /\ ticks >= 1 => get_animation[1] = constructed

\* Two ticks have run and the live grid differs from the constructed one.
HistoryLengthWitness ==
    /\ ticks = 2
    /\ get_board # constructed
    /\ get_animation[2] # constructed

(***************************************************************************)
(* C6. history holds the consecutive generations in order: each entry is   *)
(* followed by its one-generation successor, the live grid is the          *)
(* successor of the last entry, and a tick leaves the entries already in   *)
(* history as they were.                                                   *)
(***************************************************************************)
HistoryIsGenerations ==
    /\ []HistoryChain
    /\ [][\A i \in 1 .. Len(history) :
              /\ i <= Len(history')
              /\ heap'[history'[i]] = heap[history[i]]]_vars

\* Three different generations are held: two in history and the live grid.
HistoryIsGenerationsWitness ==
    /\ Len(history) = 2
    /\ get_animation[1] # get_animation[2]
    /\ get_animation[2] # get_board
    /\ get_animation[1] # get_board

(***************************************************************************)
(* C7. In every state reached by tick() calls, get_initial_board() returns *)
(* the grid contents at construction time.                                 *)
(***************************************************************************)
InitialBoardKept ==
    phase = "built" => get_initial_board = constructed

\* Ticks have run and the live grid is no longer the constructed one.
InitialBoardKeptWitness ==
    /\ phase = "built"
    /\ ticks >= 2
    /\ get_board # get_initial_board

(***************************************************************************)
(* C8. A board constructed without a supplied grid from size               *)
(* (width, height), both positive, has get_size() = [width, height].       *)
(***************************************************************************)
RandomBoardHasRequestedSize ==
    (phase = "built" /\ argBoard = NoBoard /\ argSize[1] > 0 /\ argSize[2] > 0)
        => get_size(get_board) = argSize

(***************************************************************************)
(* C9. Constructing a board without a supplied grid and with a width or    *)
(* height <= 0 fails: no board with such a dimension is produced.          *)
(***************************************************************************)
NonPositiveSizeRejected ==
    (phase # "new" /\ argBoard = NoBoard /\ (argSize[1] <= 0 \/ argSize[2] <= 0))
        => phase # "built"

(***************************************************************************)
(* C10. Constructing a board with a size and a supplied grid of another    *)
(* shape fails: the grid is never accepted with the size ignored.          *)
(***************************************************************************)
MismatchedBoardRejected ==
    (phase # "new" /\ argBoard # NoBoard /\ argSize # get_size(constructed))
        => phase # "built"

(***************************************************************************)
(* C11, as claimed. On a 3x3 board all dead but one horizontal row of 3    *)
(* alive cells, one tick() yields the grid whose only alive cells are the  *)
(* 3 cells of the centre column.                                           *)
(***************************************************************************)
BlinkerTurnsVertical3x3 ==
    \A y \in 0 .. 2 :
        (ticks = 1 /\ constructed = BlinkerRow(3, 3, 1, y))
            => get_board = VerticalLine(3, 3, 1, y)

(***************************************************************************)
(* C11, amended. On a 3x3 board all dead but one horizontal row of 3 alive *)
(* cells, one tick() yields the grid with all 9 cells alive (on the 3x3    *)
(* torus every cell has the other eight as neighbours); on a board at      *)
(* least 4 columns wide and 3 rows high, one tick() turns a horizontal row *)
(* of 3 alive cells into the vertical line of 3 cells through its centre.  *)
(***************************************************************************)
BlinkerOnTorus ==
    ticks = 1 =>
        \A w \in 3 .. Len(constructed[1]), h \in 3 .. Len(constructed) :
            \A x \in 0 .. w - 1, y \in 0 .. h - 1 :
                constructed = BlinkerRow(w, h, x, y) =>
                    /\ (w = 3 /\ h = 3) => get_board = AllAlive(3, 3)
                    /\ w >= 4 => get_board = VerticalLine(w, h, x, y)

\* The 3x3 board with its middle row alive has been ticked once and is all
\* alive.
BlinkerOnTorusWitness ==
    /\ ticks = 1
    /\ constructed = BlinkerRow(3, 3, 1, 1)
    /\ get_board = AllAlive(3, 3)

(***************************************************************************)
(* C12. On a toroidal board of 6x6 or more holding only a standard glider, *)
(* 4 calls of tick() yield exactly the same glider shifted by one cell in  *)
(* x and one cell in y, with wrap-around, and no other alive cell.         *)
(***************************************************************************)
GliderMovesDiagonally ==
    ticks = 4 =>
        \A ox \in 0 .. Len(constructed[1]) - 1, oy \in 0 .. Len(constructed) - 1 :
            constructed = Glider(Len(constructed[1]), Len(constructed), ox, oy) =>
                get_board = Glider(Len(constructed[1]), Len(constructed), ox + 1, oy + 1)

\* A glider that started across the right and bottom edges of a 6x6 board has
\* been ticked 4 times and sits one cell further in x and in y.
GliderMovesDiagonallyWitness ==
    /\ ticks = 4
    /\ constructed = Glider(6, 6, 4, 4)
    /\ get_board = Glider(6, 6, 5, 5)

(***************************************************************************)
(* C15. For every grid of 0/1 cells with at least one row and one column,  *)
(* save_board followed by read_board of the written text returns a grid    *)
(* with the same number of rows and columns and the same state in every    *)
(* cell.                                                                   *)
(***************************************************************************)
SaveReadRoundTrip ==
    (saved # <<>> /\ loaded.status # "none") =>
        /\ loaded.status = "ok"
        /\ Len(loaded.grid) = Len(saved)
        /\ \A y \in 1 .. Len(saved) :
              /\ Len(loaded.grid[y]) = Len(saved[y])
              /\ \A x \in 1 .. Len(saved[y]) : loaded.grid[y][x] = saved[y][x]

\* A board of 2 rows and 3 columns with alive and dead cells has been saved
\* and read back.
SaveReadRoundTripWitness ==
    /\ saved = <<<<0, 1, 1>>, <<1, 0, 0>>>>
    /\ file = save_board_text(saved)
    /\ loaded.status = "ok"
    /\ loaded.grid = saved

(***************************************************************************)
(* C16. read_board on a board file holding a token other than 0 or 1 (for  *)
(* example 2 or -1) surfaces an error to the caller and never returns a    *)
(* grid containing that value.                                             *)
(***************************************************************************)
ReadRejectsOtherTokens ==
    loaded.status # "none" =>
        /\ (\E i \in 1 .. Len(TokenRows(file)) :
                \E j \in 1 .. Len(TokenRows(file)[i]) :
                    TokenRows(file)[i][j] \notin {<<"0">>, <<"1">>})
              => loaded.status = "ValueError"
        /\ \A y \in 1 .. Len(loaded.grid) :
              \A x \in 1 .. Len(loaded.grid[y]) : loaded.grid[y][x] \in {0, 1}

(***************************************************************************)
(* C13. For every n_steps >= 0, main constructs a board, calls tick()      *)
(* exactly n_steps + 1 times and then goes on to get_initial_board() for   *)
(* the save; history then has length n_steps + 1, and main gets there for  *)
(* every such n_steps, n_steps = 0 included.                               *)
(***************************************************************************)
MainReachesSave ==
    /\ mpc = "save" => (ticks = n_steps + 1 /\ Len(history) = n_steps + 1)
    /\ (mpc \notin {"idle", "construct", "loop", "save", "animate", "done"})
          => phase # "built"

(***************************************************************************)
(* C14. Grid dimensions never change after construction: in every state    *)
(* reached by tick() calls, get_size() returns what it returned right      *)
(* after construction, and every history entry has those dimensions.       *)
(***************************************************************************)
DimensionsKept ==
    (phase = "built" /\ Len(constructed) > 0) =>
        /\ Len(get_board) = Len(constructed)
        /\ get_size(get_board) = get_size(constructed)
        /\ \A i \in 1 .. Len(history) :
              /\ Len(get_animation[i]) = Len(constructed)
              /\ get_size(get_animation[i]) = get_size(constructed)

\* A board of 2 rows and 3 columns has been ticked twice.
DimensionsKeptWitness ==
    /\ phase = "built"
    /\ ticks = 2
    /\ Len(constructed) = 2
    /\ get_size(constructed) = <<3, 2>>
    /\ get_size(get_board) = <<3, 2>>
    /\ get_board # constructed

(***************************************************************************)
(* C17. history is append-only under every operation of the board (tick,   *)
(* the accessors, animate with or without start_delay): an entry, once in  *)
(* history, keeps its content and its index, and the length of history is  *)
(* always the number of completed ticks.                                   *)
(***************************************************************************)
HistoryAppendOnly ==
    /\ [](phase = "built" => Len(history) = ticks)
    /\ [][\A i \in 1 .. Len(history) :
              /\ i <= Len(history')
              /\ heap'[history'[i]] = heap[history[i]]]_vars

(***************************************************************************)
(* C18. Two boards built from the same supplied grid object share no       *)
(* mutable state: tick() never writes into the caller's grid, and however  *)
(* the ticks of the two boards interleave, the live grid and the history   *)
(* of each depend only on the number of its own ticks, so two boards       *)
(* ticked equally often have equal live grids and equal histories.         *)
(***************************************************************************)
TwoBoardsIndependent ==
    /\ heap[1] = constructed
    /\ heap[board] = Generation(constructed, ticks)
    /\ heap[board2] = Generation(constructed, ticks2)
    /\ Snapshots(history) = [i \in 1 .. ticks |-> Generation(constructed, i - 1)]
    /\ Snapshots(history2) = [i \in 1 .. ticks2 |-> Generation(constructed, i - 1)]
    /\ heap[initial_board] = constructed
    /\ heap[initial_board2] = constructed
    /\ ticks = ticks2 =>
          /\ heap[board] = heap[board2]
          /\ Snapshots(history) = Snapshots(history2)

\* The first board was ticked twice before the second was ticked at all,
\* then the second twice; the grid is not a still life.
TwoBoardsIndependentWitness ==
    /\ ticks = 2
    /\ ticks2 = 2
    /\ Len(history) = 2
    /\ Len(history2) = 2
    /\ history[2] < history2[1]
    /\ heap[board2] # constructed
    /\ Generation(constructed, 1) # constructed

=============================================================================
